---- MODULE Spec2Model ----
(***************************************************************************)
(* Model of DisplayDriver::BufferedLogger (buffered_logger.h/.cpp): the    *)
(* submission path (log / shouldDeduplicate / internalLog), the drain      *)
(* routine (performFlush) as run by the background flush thread, by        *)
(* flush()/forceFlush() callers and by synchronous producers, the runtime  *)
(* configuration setters and shutdown().                                   *)
(*                                                                         *)
(* Every critical section taken under m_bufferMutex is one action; the     *)
(* code between two critical sections is a separate action, so that the    *)
(* interleavings of the threads are those of the program.                  *)
(***************************************************************************)
EXTENDS Integers, Sequences, FiniteSets, TLC

(***************************************************************************)
(* Bounds of the exploration.                                              *)
(***************************************************************************)
MaxLogCalls == 2
MaxCtlCalls == 2
MaxProducerCalls == 3
MaxTime == 2

(***************************************************************************)
(* Threads: the main thread, which owns the logger and calls any method of *)
(* it, a producer thread, which calls log(), and the flush thread started  *)
(* by the constructor when asyncFlush is set.                              *)
(***************************************************************************)
Worker == "worker"
Main == "main"
Producer == "producer"
Clients == {Main, Producer}
Threads == Clients \cup {Worker}

(***************************************************************************)
(* enum class LogLevel and the inputs the clients draw from.               *)
(***************************************************************************)
TRACE == 0
DEBUG == 1
INFO == 2
WARNING == 3
ERROR == 4
CRITICAL == 5
LogLevel == TRACE..CRITICAL

InLevels == {TRACE, INFO}
InMinLevels == {WARNING}
\* messages as sequences of character codes: "a" and "b"
InMessages == {<<97>>, <<98>>}

(***************************************************************************)
(* Config, as passed to the constructor.  The times are in clock ticks of  *)
(* half a millisecond; the dedup time window is in milliseconds.           *)
(***************************************************************************)
TicksPerMs == 2
DefaultBufferSize == 1
\* a buffer that two short records fill by their bytes, not by their number
WideBufferSize == 3
maxMemoryBytes == 174
deduplicationWindowSize == 1
\* a ring of two slots
WideWindowSize == 2
deduplicationTimeWindow == 1
DefaultMinimumLevel == DEBUG

\* sizeof(LogEntry) on LP64, and the capacity of a short std::string
SizeofLogEntry == 72
SsoCapacity == 15

(***************************************************************************)
(* 32-bit arithmetic of computeHash, on 16-bit limbs <<hi, lo>>.           *)
(***************************************************************************)
Limb == 65536

RECURSIVE Xor(_, _)
Xor(a, b) ==
    IF a = 0 THEN b
    ELSE IF b = 0 THEN a
    ELSE (((a % 2) + (b % 2)) % 2) + 2 * Xor(a \div 2, b \div 2)

\* hash ^= x, for 0 <= x < 2^16
HashXor(h, x) == [hi |-> h.hi, lo |-> Xor(h.lo, x)]

\* hash *= 16777619u (0x01000193), modulo 2^32
HashMulPrime(h) ==
    LET p == h.lo * 403
    IN  [hi |-> (h.hi * 403 + h.lo * 256 + (p \div Limb)) % Limb,
         lo |-> p % Limb]

\* 2166136261u = 0x811C9DC5
FnvOffsetBasis == [hi |-> 33052, lo |-> 40389]
ZeroHash == [hi |-> 0, lo |-> 0]

RECURSIVE HashChars(_, _)
HashChars(h, s) ==
    IF s = <<>> THEN h
    ELSE HashChars(HashMulPrime(HashXor(h, Head(s))), Tail(s))

computeHash(message, level) ==
    HashChars(HashMulPrime(HashXor(FnvOffsetBasis, level)), message)

(***************************************************************************)
(* State.  The m_ variables are the members of BufferedLogger; the three   *)
(* configuration variables are the Config fields that differ between       *)
(* engines or change at run time.                                          *)
(***************************************************************************)
VARIABLES
    asyncFlush,             \* m_config.asyncFlush (set once)
    minimumLevel,           \* m_config.minimumLevel
    enableDedup,            \* m_config.enableDeduplication
    bufferSize,             \* m_config.bufferSize (set once)
    m_flushCallback,        \* "none", or how the registered callback ends
    m_primaryBuffer,
    m_secondaryBuffer,
    m_useSecondaryBuffer,
    m_dedupeMap,            \* hash -> [lastSeen, count]
    m_dedupeWindow,         \* ring of hashes, ZeroHash = empty slot
    m_dedupeWindowIndex,    \* 0-based cursor
    m_shutdown,
    m_forceFlushRequested,
    m_fileStream,           \* [open, lines]: the file sink
    m_stats,
    clock,                  \* the latest instant read from steady_clock, in ticks
    pc,                     \* position of each thread
    loc,                    \* locals of the call each thread is in
    crashed,                \* the process died on an invalid memory access
    logCalls,               \* number of log() calls the clients may still start
    ctlCalls,               \* number of other calls the main thread may still start
    hist                    \* history of the run, read by the properties only

config == <<asyncFlush, minimumLevel, enableDedup, bufferSize,
            m_flushCallback>>
buffers == <<m_primaryBuffer, m_secondaryBuffer, m_useSecondaryBuffer>>
dedup == <<m_dedupeMap, m_dedupeWindow, m_dedupeWindowIndex>>
vars == <<asyncFlush, minimumLevel, enableDedup, bufferSize,
          m_flushCallback, m_primaryBuffer,
          m_secondaryBuffer, m_useSecondaryBuffer, m_dedupeMap,
          m_dedupeWindow, m_dedupeWindowIndex, m_shutdown,
          m_forceFlushRequested, m_fileStream, m_stats, clock, pc, loc,
          crashed, logCalls, ctlCalls, hist>>

(***************************************************************************)
(* Locals of a thread outside any call.                                    *)
(***************************************************************************)
NoEntry == [timestamp |-> 0, level |-> INFO, message |-> <<>>,
            threadId |-> "", hash |-> ZeroHash, count |-> 1,
            seq |-> 0, minSeen |-> TRACE, probed |-> 0]

NoLocals == [call |-> "", hash |-> ZeroHash, now |-> 0, entry |-> NoEntry,
             bufferToFlush |-> <<>>, i |-> 1, drain |-> 0, ret |-> "idle",
             late |-> FALSE, fmtFailed |-> FALSE, cbDone |-> FALSE,
             cbRace |-> FALSE, locks |-> <<>>, held |-> {}]

\* a constructor that copies the occurrence count of the fingerprint
LogEntryCounted(t, lvl, msg, h, minSeen) ==
    [timestamp |-> clock, level |-> lvl, message |-> msg, threadId |-> t,
     hash |-> h,
     count |-> IF h \in DOMAIN m_dedupeMap THEN m_dedupeMap[h].count + 1
               ELSE 1,
     seq |-> 0, minSeen |-> minSeen, probed |-> 0]

\* LogEntry(lvl, msg, h): timestamp, the calling thread, count 1.  The last
\* three fields are history, not members: seq is the commit number given at
\* the append, minSeen the minimum level that the call compared the level
\* with, probed the instant the call passed to shouldDeduplicate.
LogEntry(t, lvl, msg, h, minSeen) ==
    [timestamp |-> clock, level |-> lvl, message |-> msg, threadId |-> t,
     hash |-> h, count |-> 1, seq |-> 0, minSeen |-> minSeen, probed |-> 0]

\* the state the constructor leaves, for a Config whose
\* deduplicationWindowSize is windowSize
ConstructedWith(windowSize) ==
    /\ asyncFlush \in BOOLEAN
    /\ minimumLevel = DefaultMinimumLevel
    /\ enableDedup \in BOOLEAN
    /\ m_flushCallback = "none"
    /\ m_primaryBuffer = <<>>
    /\ m_secondaryBuffer = <<>>
    /\ m_useSecondaryBuffer = FALSE
    /\ m_dedupeMap = <<>>
    /\ m_dedupeWindow = IF enableDedup
                        THEN [k \in 1..windowSize |-> ZeroHash]
                        ELSE <<>>
    /\ m_dedupeWindowIndex = 0
    /\ m_shutdown = FALSE
    /\ m_forceFlushRequested = FALSE
    /\ m_fileStream = [open |-> TRUE, lines |-> <<>>]
    /\ m_stats = [totalLogged |-> 0, totalFlushed |-> 0,
                  totalDeduplicated |-> 0, currentBufferSize |-> 0,
                  totalFlushes |-> 0, lastFlushTime |-> 0]
    /\ clock = 0
    /\ pc = [t \in Threads |->
                IF t = Worker THEN (IF asyncFlush THEN "loop" ELSE "none")
                ELSE "idle"]
    /\ loc = [t \in Threads |->
                IF t = Worker THEN [NoLocals EXCEPT !.ret = "loop"]
                ELSE NoLocals]
    /\ crashed = FALSE
    /\ hist = [drains |-> 0, sdCalled |-> FALSE, sdReturned |-> FALSE,
               lateSubmit |-> FALSE, returnedBefore |-> {}, counted |-> {},
               ffQuiet |-> FALSE, filtered |-> {}, sdRepeats |-> 0,
               cb |-> <<>>, cbDrains |-> {}, cbFinished |-> {},
               flushedAtReg |-> 0, cbEscaped |-> {}, ffEmpty |-> FALSE,
               accepted |-> 0, reqDrains |-> 0]

Constructed == ConstructedWith(deduplicationWindowSize)

\* the engine after construction, with the calls the threads will make
Init ==
    /\ Constructed
    /\ bufferSize = DefaultBufferSize
    /\ logCalls = MaxLogCalls
    /\ ctlCalls = MaxCtlCalls

\* the engine after construction, used by producers only
InitProducers ==
    /\ Constructed
    /\ bufferSize = DefaultBufferSize
    /\ logCalls = MaxProducerCalls
    /\ ctlCalls = 0

\* an engine with dedup enabled and a ring of two slots, used by producers
\* only
InitDedup ==
    /\ ConstructedWith(WideWindowSize)
    /\ enableDedup
    /\ bufferSize = DefaultBufferSize
    /\ logCalls = MaxProducerCalls
    /\ ctlCalls = 0

\* an engine with either buffer size, used by producers only
InitSubmit ==
    /\ Constructed
    /\ bufferSize \in {DefaultBufferSize, WideBufferSize}
    /\ logCalls = MaxLogCalls
    /\ ctlCalls = 0

\* an async engine with either buffer size, which the main thread shuts
\* down
InitDrainer ==
    /\ Constructed
    /\ asyncFlush
    /\ bufferSize \in {DefaultBufferSize, WideBufferSize}
    /\ logCalls = MaxLogCalls
    /\ ctlCalls = MaxCtlCalls

\* the engine after construction, on which the main thread registers a
\* callback
InitCallback ==
    /\ Constructed
    /\ bufferSize = DefaultBufferSize
    /\ logCalls = MaxLogCalls
    /\ ctlCalls = MaxCtlCalls

(***************************************************************************)
(* Helpers.                                                                *)
(***************************************************************************)
\* auto& currentBuffer = m_useSecondaryBuffer ? m_secondaryBuffer : m_primaryBuffer
currentBuffer ==
    IF m_useSecondaryBuffer THEN m_secondaryBuffer ELSE m_primaryBuffer

\* std::string::capacity() of a copy of msg
Capacity(msg) == IF Len(msg) <= SsoCapacity THEN SsoCapacity ELSE Len(msg)

RECURSIVE SumUsage(_)
SumUsage(buffer) ==
    IF buffer = <<>> THEN 0
    ELSE SizeofLogEntry + Capacity(Head(buffer).message) + SumUsage(Tail(buffer))

estimateMemoryUsage(buffer) == SumUsage(buffer)

\* duration_cast<milliseconds>: truncation toward zero
DurationCastMs(d) ==
    IF d >= 0 THEN d \div TicksPerMs ELSE 0 - ((0 - d) \div TicksPerMs)

\* a flush thread that keeps m_flushMutex until performFlush has returned
FlushMutexHeldThroughFlush ==
    pc[Worker] \in {"check", "flush_swap", "dispatch"}

\* m_flushMutex is held by the flush thread from the return of wait_for to
\* its unlock (or its exit); every other holder takes and releases it
\* within one action.
FlushMutexHeld == pc[Worker] = "check"

\* the thread t holds m_flushMutex between two of its steps
HoldsFlushMutex(t) == t = Worker /\ FlushMutexHeld

\* the thread leaves the call it is in
Return(t) == [loc EXCEPT ![t] = IF t = Worker
                                THEN [NoLocals EXCEPT !.ret = "loop"]
                                ELSE NoLocals]

InLogCall(t) == loc[t].call = "log"

(***************************************************************************)
(* shouldDeduplicate(hash, now), under m_bufferMutex: the result and the   *)
(* new dedup state.  `ub` is set when the ring is indexed out of range.    *)
(***************************************************************************)
\* a window test that suppresses a difference of exactly the time window
WithinWindowInclusive(now, lastSeen) ==
    DurationCastMs(now - lastSeen) <= deduplicationTimeWindow

\* timeDiff < m_config.deduplicationTimeWindow
WithinWindow(now, lastSeen) ==
    DurationCastMs(now - lastSeen) < deduplicationTimeWindow

MapPut(map, h, v) ==
    [k \in DOMAIN map \cup {h} |-> IF k = h THEN v ELSE map[k]]

\* an erase that removes nothing
MapEraseNothing(map, h) == map

MapErase(map, h) == [k \in DOMAIN map \ {h} |-> map[k]]

shouldDeduplicate(hash, now) ==
    IF hash \in DOMAIN m_dedupeMap /\ WithinWindow(now, m_dedupeMap[hash].lastSeen)
    THEN [result |-> TRUE, ub |-> FALSE,
          map |-> [m_dedupeMap EXCEPT ![hash] =
                      [lastSeen |-> now, count |-> @.count + 1]],
          window |-> m_dedupeWindow,
          index |-> m_dedupeWindowIndex]
    ELSE LET added == MapPut(m_dedupeMap, hash, [lastSeen |-> now, count |-> 1])
         IN  IF m_dedupeWindowIndex >= Len(m_dedupeWindow)
             THEN [result |-> FALSE, ub |-> TRUE, map |-> added,
                   window |-> m_dedupeWindow, index |-> m_dedupeWindowIndex]
             ELSE LET oldHash == m_dedupeWindow[m_dedupeWindowIndex + 1]
                      evict == /\ oldHash # ZeroHash
                               /\ oldHash \in DOMAIN added
                               /\ ~WithinWindow(now, added[oldHash].lastSeen)
                  IN  [result |-> FALSE, ub |-> FALSE,
                       map |-> IF evict THEN MapErase(added, oldHash) ELSE added,
                       window |-> [m_dedupeWindow EXCEPT
                                      ![m_dedupeWindowIndex + 1] = hash],
                       index |-> (m_dedupeWindowIndex + 1) % Len(m_dedupeWindow)]

(***************************************************************************)
(* log(level, message)                                                     *)
(***************************************************************************)
\* a level check that lets the level just below the minimum through
BelowMinimumOffByOne(level, minLevel) == level + 1 < minLevel

\* if (level < m_config.minimumLevel) return;
BelowMinimum(level, minLevel) == level < minLevel

\* The entry of log(): the level check, and with dedup enabled the hash and
\* the sample `now` of the clock, both taken before any lock.  The clock is
\* monotonic: the sample is no earlier than the latest instant read.
\* fmtFailed tells that the message is what a failed vsnprintf left.
LogSubmit(t, level, message, fmtFailed) ==
    /\ ~crashed
    /\ pc[t] = "idle"
    /\ logCalls > 0
    /\ logCalls' = logCalls - 1
    /\ IF BelowMinimum(level, minimumLevel)
       THEN /\ hist' = [hist EXCEPT
                           !.filtered = @ \cup {<<level, minimumLevel>>}]
            /\ UNCHANGED <<pc, loc, clock>>
       ELSE /\ hist' = [hist EXCEPT !.lateSubmit = @ \/ hist.sdCalled,
                                    !.ffQuiet = FALSE,
                                    !.accepted = @ + 1]
            /\ IF enableDedup
               THEN /\ \E now \in clock..MaxTime :
                         /\ clock' = now
                         /\ loc' = [loc EXCEPT ![t] =
                               [NoLocals EXCEPT
                                   !.call = "log",
                                   !.late = hist.sdReturned,
                                   !.fmtFailed = fmtFailed,
                                   !.hash = computeHash(message, level),
                                   !.now = now,
                                   !.entry = LogEntry(t, level, message,
                                                 computeHash(message, level),
                                                 minimumLevel)]]
                    /\ pc' = [pc EXCEPT ![t] = "probe"]
               ELSE /\ pc' = [pc EXCEPT ![t] = "append"]
                    /\ UNCHANGED clock
                    /\ loc' = [loc EXCEPT ![t] =
                          [NoLocals EXCEPT
                              !.call = "log",
                              !.late = hist.sdReturned,
                              !.fmtFailed = fmtFailed,
                              !.entry = LogEntry(t, level, message, ZeroHash,
                                                 minimumLevel)]]
    /\ UNCHANGED <<config, buffers, dedup, m_shutdown, m_forceFlushRequested,
                   m_fileStream, m_stats, crashed, ctlCalls>>

\* log(level, message)
LogCall(t, level, message) == LogSubmit(t, level, message, FALSE)

\* what s_formatBuffer holds after a vsnprintf that failed: the buffer as
\* it was (empty, or the text of an earlier call) or a part of the output
StaleFormatBuffer == {<<>>} \cup InMessages

\* log(level, format, ...): the level check, vsnprintf into s_formatBuffer,
\* whose result is not looked at, then log(level, std::string(s_formatBuffer))
LogFormatCall(t, level, rendered, ok) ==
    \E message \in (IF ok THEN {rendered} ELSE StaleFormatBuffer) :
        LogSubmit(t, level, message, ~ok)

\* shouldDeduplicate under the buffer mutex, then either the return of a
\* suppressed call or the construction of the LogEntry.
Probe(t) ==
    /\ ~crashed
    /\ pc[t] = "probe"
    /\ LET r == shouldDeduplicate(loc[t].hash, loc[t].now)
       IN  /\ m_dedupeMap' = r.map
           /\ m_dedupeWindow' = r.window
           /\ m_dedupeWindowIndex' = r.index
           /\ crashed' = r.ub
           /\ IF r.ub
              THEN UNCHANGED <<pc, loc, m_stats>>
              ELSE IF r.result
              THEN /\ m_stats' = [m_stats EXCEPT !.totalDeduplicated = @ + 1]
                   /\ pc' = [pc EXCEPT ![t] = "idle"]
                   /\ loc' = Return(t)
              ELSE /\ pc' = [pc EXCEPT ![t] = "append"]
                   /\ loc' = [loc EXCEPT ![t].entry.timestamp = clock,
                                         ![t].entry.probed = loc[t].now]
                   /\ UNCHANGED m_stats
    /\ UNCHANGED <<config, buffers, m_shutdown, m_forceFlushRequested,
                   m_fileStream, clock, logCalls, ctlCalls, hist>>

\* a push_back that stores the record twice
PushBackTwice(buffer, entry) == Append(Append(buffer, entry), entry)

\* currentBuffer.push_back(entry)
PushBack(buffer, entry) == Append(buffer, entry)

\* a back-pressure test that looks at the number of records only
ShouldFlushCountOnly(buffer) == Len(buffer) >= bufferSize

\* the back-pressure test of internalLog
ShouldFlush(buffer) ==
    \/ Len(buffer) >= bufferSize
    \/ estimateMemoryUsage(buffer) >= maxMemoryBytes

\* The critical section of internalLog.
AppendEntry(t) ==
    /\ ~crashed
    /\ pc[t] = "append"
    /\ LET entry == [loc[t].entry EXCEPT !.seq = m_stats.totalLogged + 1]
           buffer == PushBack(currentBuffer, entry)
       IN  /\ IF m_useSecondaryBuffer
              THEN m_secondaryBuffer' = buffer /\ UNCHANGED m_primaryBuffer
              ELSE m_primaryBuffer' = buffer /\ UNCHANGED m_secondaryBuffer
           /\ m_stats' = [m_stats EXCEPT !.totalLogged = @ + 1,
                                         !.currentBufferSize = Len(buffer)]
           /\ IF ShouldFlush(buffer)
              THEN /\ pc' = [pc EXCEPT ![t] =
                               IF asyncFlush THEN "signal" ELSE "flush_swap"]
                   /\ loc' = [loc EXCEPT ![t].entry = entry]
              ELSE /\ pc' = [pc EXCEPT ![t] = "idle"]
                   /\ loc' = Return(t)
    /\ UNCHANGED <<config, m_useSecondaryBuffer, dedup, m_shutdown,
                   m_forceFlushRequested, m_fileStream, clock, crashed,
                   logCalls, ctlCalls, hist>>

\* lock(m_flushMutex); m_forceFlushRequested = true; m_flushCv.notify_one()
Signal(t) ==
    /\ ~crashed
    /\ pc[t] = "signal"
    /\ ~FlushMutexHeld
    /\ m_forceFlushRequested' = TRUE
    /\ pc' = [pc EXCEPT ![t] = "idle"]
    /\ loc' = Return(t)
    /\ hist' = [hist EXCEPT !.reqDrains = hist.drains]
    /\ UNCHANGED <<config, buffers, dedup, m_shutdown, m_fileStream, m_stats,
                   clock, crashed, logCalls, ctlCalls>>

(***************************************************************************)
(* performFlush(), run by any thread: the flush thread, a flush() or       *)
(* forceFlush() caller, a synchronous producer, shutdown().                *)
(***************************************************************************)
\* where the thread continues when performFlush returns
AfterFlush(t) ==
    IF loc[t].ret = "sd_close" THEN "sd_close"
    ELSE IF t = Worker THEN "loop" ELSE "idle"

AfterFlushLocals(t) ==
    IF loc[t].ret = "sd_close"
    THEN [loc EXCEPT ![t] = [NoLocals EXCEPT !.call = "shutdown",
                                             !.ret = "sd_close"]]
    ELSE Return(t)

\* an emptiness test that never holds
BufferEmptyNever(buffer) == FALSE

\* currentBuffer.empty()
BufferEmpty(buffer) == buffer = <<>>

\* a swap that leaves the records in the buffer it took them from
SwappedOutKept(buffer) == buffer

\* bufferToFlush.swap(currentBuffer): what currentBuffer holds afterwards,
\* the content of the local vector, which is empty
SwappedOut(buffer) == <<>>

\* The critical section of performFlush: return on an empty buffer, else
\* swap the buffer out and flip the selector.
FlushSwap(t) ==
    /\ ~crashed
    /\ pc[t] = "flush_swap"
    /\ IF BufferEmpty(currentBuffer)
       THEN /\ pc' = [pc EXCEPT ![t] = AfterFlush(t)]
            /\ loc' = AfterFlushLocals(t)
            /\ hist' = [hist EXCEPT
                           !.ffEmpty = @ \/ loc[t].call = "forceFlush"]
            /\ UNCHANGED <<buffers, m_stats>>
       ELSE /\ loc' = [loc EXCEPT ![t].bufferToFlush = currentBuffer,
                                  ![t].i = 1,
                                  ![t].drain = hist.drains + 1]
            /\ hist' = [hist EXCEPT
                           !.drains = @ + 1,
                           !.cbDrains = IF m_flushCallback = "none" THEN @
                                        ELSE @ \cup {hist.drains + 1}]
            /\ IF m_useSecondaryBuffer
               THEN /\ m_secondaryBuffer' = SwappedOut(currentBuffer)
                    /\ UNCHANGED m_primaryBuffer
               ELSE /\ m_primaryBuffer' = SwappedOut(currentBuffer)
                    /\ UNCHANGED m_secondaryBuffer
            /\ m_useSecondaryBuffer' = ~m_useSecondaryBuffer
            /\ m_stats' = [m_stats EXCEPT !.currentBufferSize = 0]
            /\ pc' = [pc EXCEPT ![t] = "dispatch"]
    /\ UNCHANGED <<config, dedup, m_shutdown, m_forceFlushRequested,
                   m_fileStream, clock, crashed, logCalls, ctlCalls>>

levelStrings == <<"TRACE", "DEBUG", "INFO ", "WARN ", "ERROR", "CRIT ">>

\* The line of an entry: milliseconds of the timestamp, level tag, thread
\* id, message, and the repetition suffix (0 = no suffix).
formatLogEntry(entry) ==
    [ms |-> DurationCastMs(entry.timestamp) % 1000,
     level |-> levelStrings[entry.level + 1],
     thread |-> entry.threadId,
     message |-> entry.message,
     repeated |-> IF entry.count > 1 THEN entry.count ELSE 0]

\* a write loop that runs over the batch from its end
NextToWriteReversed(batch, i) == batch[Len(batch) + 1 - i]

\* the entry the loop of performFlush writes at step i of a batch
NextToWrite(batch, i) == batch[i]

\* m_fileStream is written without a lock: a write made while another
\* thread is in the write loop too races with that thread's writes.
RacingWrite(t) == \E u \in Threads \ {t} : pc[u] = "dispatch"

\* One iteration of the write loop, outside every lock.  The line carries
\* its entry and the number of the drain as history; a racing write leaves
\* the line intact or garbled.
Dispatch(t) ==
    /\ ~crashed
    /\ pc[t] = "dispatch"
    /\ loc[t].i <= Len(loc[t].bufferToFlush)
    /\ LET entry == NextToWrite(loc[t].bufferToFlush, loc[t].i)
       IN  \E intact \in (IF RacingWrite(t) THEN BOOLEAN ELSE {TRUE}) :
             LET line == [text |-> formatLogEntry(entry),
                          intact |-> intact,
                          entry |-> entry,
                          drain |-> loc[t].drain]
             IN  m_fileStream' =
                     IF m_fileStream.open
                     THEN [m_fileStream EXCEPT !.lines = Append(@, line)]
                     ELSE m_fileStream
    /\ loc' = [loc EXCEPT ![t].i = @ + 1]
    /\ UNCHANGED <<config, buffers, dedup, m_shutdown, m_forceFlushRequested,
                   m_stats, clock, pc, crashed, logCalls, ctlCalls, hist>>

\* the number of lines the drain d has written to the file sink
WrittenBy(d) ==
    Cardinality({k \in 1..Len(m_fileStream.lines) :
                    m_fileStream.lines[k].drain = d})

\* if (m_flushCallback) m_flushCallback(bufferToFlush);  The call is not in
\* a try block: an exception of the callback leaves performFlush, and so
\* the function of the flush thread (std::terminate) or the call of the
\* client.  A drain that was in its write loop while setFlushCallback
\* assigned the std::function reads it in a data race: it sees the old
\* value (FlushFinish without a call), the new one, or a torn one.
InvokeCallback(t) ==
    /\ ~crashed
    /\ pc[t] = "dispatch"
    /\ loc[t].i > Len(loc[t].bufferToFlush)
    /\ m_flushCallback # "none"
    /\ ~loc[t].cbDone
    /\ \E outcome \in (IF loc[t].cbRace THEN {"call", "torn"} ELSE {"call"}) :
          IF outcome = "torn"
          THEN /\ crashed' = TRUE
               /\ UNCHANGED <<pc, loc, hist>>
          ELSE /\ hist' = [hist EXCEPT
                              !.cb = Append(@,
                                  [drain |-> loc[t].drain,
                                   arg |-> loc[t].bufferToFlush,
                                   written |-> WrittenBy(loc[t].drain),
                                   ended |-> m_flushCallback]),
                              !.cbEscaped =
                                  IF m_flushCallback = "throws" /\ t # Worker
                                  THEN @ \cup {t} ELSE @]
               /\ IF m_flushCallback = "ok"
                  THEN /\ loc' = [loc EXCEPT ![t].cbDone = TRUE]
                       /\ UNCHANGED <<pc, crashed>>
                  ELSE IF t = Worker
                  THEN /\ crashed' = TRUE
                       /\ UNCHANGED <<pc, loc>>
                  ELSE /\ pc' = [pc EXCEPT ![t] = "idle"]
                       /\ loc' = Return(t)
                       /\ UNCHANGED crashed
    /\ UNCHANGED <<config, buffers, dedup, m_shutdown, m_forceFlushRequested,
                   m_fileStream, m_stats, clock, logCalls, ctlCalls>>

\* a drain that counts itself instead of its records
FlushedAddOne(batch) == 1

\* m_stats.totalFlushed.fetch_add(bufferToFlush.size())
FlushedAdd(batch) == Len(batch)

SeqsOf(batch) == {batch[k].seq : k \in 1..Len(batch)}

\* The end of performFlush: the stats and the reset of the request flag.
FlushFinish(t) ==
    /\ ~crashed
    /\ pc[t] = "dispatch"
    /\ loc[t].i > Len(loc[t].bufferToFlush)
    /\ m_flushCallback = "none" \/ loc[t].cbDone \/ loc[t].cbRace
    /\ m_stats' = [m_stats EXCEPT
                      !.totalFlushed = @ + FlushedAdd(loc[t].bufferToFlush),
                      !.totalFlushes = @ + 1,
                      !.lastFlushTime = clock]
    /\ m_forceFlushRequested' = FALSE
    /\ hist' = [hist EXCEPT
                   !.counted = @ \cup SeqsOf(loc[t].bufferToFlush),
                   !.cbFinished = IF loc[t].drain \in hist.cbDrains
                                  THEN @ \cup {loc[t].drain} ELSE @]
    /\ pc' = [pc EXCEPT ![t] = AfterFlush(t)]
    /\ loc' = AfterFlushLocals(t)
    /\ UNCHANGED <<config, buffers, dedup, m_shutdown, m_fileStream, clock,
                   crashed, logCalls, ctlCalls>>

(***************************************************************************)
(* flush(), forceFlush()                                                   *)
(***************************************************************************)
FlushCall(t) ==
    /\ ~crashed
    /\ pc[t] = "idle"
    /\ ctlCalls > 0
    /\ ctlCalls' = ctlCalls - 1
    /\ pc' = [pc EXCEPT ![t] = IF asyncFlush THEN "signal" ELSE "flush_swap"]
    /\ loc' = [loc EXCEPT ![t] = [NoLocals EXCEPT !.call = "flush"]]
    /\ UNCHANGED <<config, buffers, dedup, m_shutdown, m_forceFlushRequested,
                   m_fileStream, m_stats, clock, crashed, logCalls, hist>>

ForceFlushCall(t) ==
    /\ ~crashed
    /\ pc[t] = "idle"
    /\ ctlCalls > 0
    /\ ctlCalls' = ctlCalls - 1
    /\ pc' = [pc EXCEPT ![t] = "flush_swap"]
    /\ loc' = [loc EXCEPT ![t] = [NoLocals EXCEPT !.call = "forceFlush"]]
    /\ hist' = [hist EXCEPT
                   !.ffQuiet = \A c \in Clients : ~InLogCall(c)]
    /\ UNCHANGED <<config, buffers, dedup, m_shutdown, m_forceFlushRequested,
                   m_fileStream, m_stats, clock, crashed, logCalls>>

(***************************************************************************)
(* shutdown()                                                              *)
(***************************************************************************)
\* commit numbers of the records appended by log() calls that have returned
ReturnedSeqs ==
    (1..m_stats.totalLogged)
        \ {loc[c].entry.seq : c \in {d \in Clients : InLogCall(d)}}

\* an exchange that never reports an earlier shutdown
AlreadyShutDownNever(flag) == FALSE

\* the value m_shutdown.exchange(true) returns
AlreadyShutDown(flag) == flag

\* if (m_shutdown.exchange(true)) return;  Also the call the destructor
\* makes.
ShutdownCall(t) ==
    /\ ~crashed
    /\ pc[t] = "idle"
    /\ ctlCalls > 0
    /\ ctlCalls' = ctlCalls - 1
    /\ IF AlreadyShutDown(m_shutdown)
       THEN /\ hist' = [hist EXCEPT !.sdRepeats = @ + 1]
            /\ UNCHANGED <<m_shutdown, pc, loc>>
       ELSE /\ m_shutdown' = TRUE
            /\ pc' = [pc EXCEPT ![t] = "sd_notify"]
            /\ loc' = [loc EXCEPT ![t] = [NoLocals EXCEPT !.call = "shutdown"]]
            /\ hist' = [hist EXCEPT
                           !.sdCalled = TRUE,
                           !.lateSubmit = \E c \in Clients : InLogCall(c),
                           !.returnedBefore = ReturnedSeqs]
    /\ UNCHANGED <<config, buffers, dedup, m_forceFlushRequested,
                   m_fileStream, m_stats, clock, crashed, logCalls>>

\* lock(m_flushMutex); m_flushCv.notify_all()
ShutdownNotify(t) ==
    /\ ~crashed
    /\ pc[t] = "sd_notify"
    /\ ~FlushMutexHeld
    /\ pc' = [pc EXCEPT ![t] = "sd_join"]
    /\ UNCHANGED <<config, buffers, dedup, m_shutdown, m_forceFlushRequested,
                   m_fileStream, m_stats, clock, loc, crashed, logCalls,
                   ctlCalls, hist>>

\* a join that returns while the flush thread is running
JoinedAlways == TRUE

\* a join that never returns
JoinedNever == FALSE

\* there is no flush thread, or m_flushThread->join() can return
Joined == pc[Worker] \in {"none", "done"}

\* m_flushThread->join() when there is a flush thread, then forceFlush()
ShutdownJoin(t) ==
    /\ ~crashed
    /\ pc[t] = "sd_join"
    /\ Joined
    /\ pc' = [pc EXCEPT ![t] = "flush_swap"]
    /\ loc' = [loc EXCEPT ![t].ret = "sd_close"]
    /\ UNCHANGED <<config, buffers, dedup, m_shutdown, m_forceFlushRequested,
                   m_fileStream, m_stats, clock, crashed, logCalls, ctlCalls,
                   hist>>

\* if (m_fileStream.is_open()) m_fileStream.close(); and the return
ShutdownClose(t) ==
    /\ ~crashed
    /\ pc[t] = "sd_close"
    /\ m_fileStream' = [m_fileStream EXCEPT !.open = FALSE]
    /\ pc' = [pc EXCEPT ![t] = "idle"]
    /\ loc' = Return(t)
    /\ hist' = [hist EXCEPT !.sdReturned = TRUE]
    /\ UNCHANGED <<config, buffers, dedup, m_shutdown, m_forceFlushRequested,
                   m_stats, clock, crashed, logCalls, ctlCalls>>

(***************************************************************************)
(* setMinimumLevel(level), enableDeduplication(enable)                     *)
(***************************************************************************)
SetMinimumLevel(t, level) ==
    /\ ~crashed
    /\ pc[t] = "idle"
    /\ ctlCalls > 0
    /\ ctlCalls' = ctlCalls - 1
    /\ minimumLevel' = level
    /\ UNCHANGED <<asyncFlush, enableDedup, bufferSize, m_flushCallback,
                   buffers, dedup, m_shutdown,
                   m_forceFlushRequested, m_fileStream, m_stats, clock, pc,
                   loc, crashed, logCalls, hist>>

EnableDeduplication(t, enable) ==
    /\ ~crashed
    /\ pc[t] = "idle"
    /\ ctlCalls > 0
    /\ ctlCalls' = ctlCalls - 1
    /\ enableDedup' = enable
    /\ IF ~enable
       THEN /\ m_dedupeMap' = <<>>
            /\ m_dedupeWindow' = [k \in DOMAIN m_dedupeWindow |-> ZeroHash]
            /\ m_dedupeWindowIndex' = 0
       ELSE UNCHANGED dedup
    /\ UNCHANGED <<asyncFlush, minimumLevel, bufferSize, m_flushCallback,
                   buffers, m_shutdown,
                   m_forceFlushRequested, m_fileStream, m_stats, clock, pc,
                   loc, crashed, logCalls, hist>>

\* m_flushCallback = callback, without any lock
SetFlushCallback(t, callback) ==
    /\ ~crashed
    /\ pc[t] = "idle"
    /\ ctlCalls > 0
    /\ ctlCalls' = ctlCalls - 1
    /\ m_flushCallback' = callback
    /\ loc' = [u \in Threads |->
                  IF pc[u] = "dispatch" /\ ~loc[u].cbDone
                  THEN [loc[u] EXCEPT !.cbRace = TRUE]
                  ELSE loc[u]]
    /\ hist' = [hist EXCEPT !.flushedAtReg = m_stats.totalFlushed,
                            !.cb = <<>>,
                            !.cbDrains = {},
                            !.cbFinished = {}]
    /\ UNCHANGED <<asyncFlush, minimumLevel, enableDedup, bufferSize, buffers,
                   dedup, m_shutdown, m_forceFlushRequested, m_fileStream,
                   m_stats, clock, pc, crashed, logCalls>>

(***************************************************************************)
(* flushWorker(), the body of the flush thread                             *)
(***************************************************************************)
\* while (!m_shutdown) { lock; wait_for(...): the predicate is tested first
WorkerLoop ==
    /\ ~crashed
    /\ pc[Worker] = "loop"
    /\ pc' = [pc EXCEPT ![Worker] =
                 IF m_shutdown THEN "done"
                 ELSE IF m_forceFlushRequested THEN "check"
                 ELSE "waiting"]
    /\ UNCHANGED <<config, buffers, dedup, m_shutdown, m_forceFlushRequested,
                   m_fileStream, m_stats, clock, loc, crashed, logCalls,
                   ctlCalls, hist>>

\* a wait that has no timeout
WaitNeverTimesOut == FALSE

\* m_config.flushInterval elapses while the flush thread waits
WaitTimesOut == TRUE

\* wait_for returns, with the mutex re-acquired: the predicate holds, or
\* flushInterval has elapsed.
WorkerWake ==
    /\ ~crashed
    /\ pc[Worker] = "waiting"
    /\ WaitTimesOut \/ m_shutdown \/ m_forceFlushRequested
    /\ pc' = [pc EXCEPT ![Worker] = "check"]
    /\ UNCHANGED <<config, buffers, dedup, m_shutdown, m_forceFlushRequested,
                   m_fileStream, m_stats, clock, loc, crashed, logCalls,
                   ctlCalls, hist>>

\* a flush thread that does not look at the flag after its wait
BreakOnShutdownNever(flag) == FALSE

\* if (m_shutdown) break;
BreakOnShutdown(flag) == flag

\* if (m_shutdown) break; lock.unlock(); performFlush();
WorkerCheck ==
    /\ ~crashed
    /\ pc[Worker] = "check"
    /\ pc' = [pc EXCEPT ![Worker] =
                 IF BreakOnShutdown(m_shutdown) THEN "done" ELSE "flush_swap"]
    /\ UNCHANGED <<config, buffers, dedup, m_shutdown, m_forceFlushRequested,
                   m_fileStream, m_stats, clock, loc, crashed, logCalls,
                   ctlCalls, hist>>

Next ==
    \/ \E t \in Clients, level \in InLevels, message \in InMessages :
           LogCall(t, level, message)
    \/ \E t \in Clients : Probe(t)
    \/ \E t \in Clients : AppendEntry(t)
    \/ \E t \in Clients : Signal(t)
    \/ \E t \in Threads : FlushSwap(t)
    \/ \E t \in Threads : Dispatch(t)
    \/ \E t \in Threads : FlushFinish(t)
    \/ FlushCall(Main)
    \/ ForceFlushCall(Main)
    \/ ShutdownCall(Main)
    \/ ShutdownNotify(Main)
    \/ ShutdownJoin(Main)
    \/ ShutdownClose(Main)
    \/ \E level \in InMinLevels : SetMinimumLevel(Main, level)
    \/ \E enable \in BOOLEAN : EnableDeduplication(Main, enable)
    \/ WorkerLoop
    \/ WorkerWake
    \/ WorkerCheck

Spec == Init /\ [][Next]_vars

\* Producers and the flush thread alone: no call but log() is made.
NextProducers ==
    \/ \E t \in Clients, level \in InLevels, message \in InMessages :
           LogCall(t, level, message)
    \/ \E t \in Clients : Probe(t)
    \/ \E t \in Clients : AppendEntry(t)
    \/ \E t \in Clients : Signal(t)
    \/ \E t \in Threads : FlushSwap(t)
    \/ \E t \in Threads : Dispatch(t)
    \/ \E t \in Threads : FlushFinish(t)
    \/ WorkerLoop
    \/ WorkerWake
    \/ WorkerCheck

SpecProducers == InitProducers /\ [][NextProducers]_vars

\* messages with three different fingerprints at one level: "a", "b", "c"
DedupMessages == InMessages \cup {<<99>>}

\* the steps of producers that submit at INFO
NextDedup ==
    \/ \E t \in Clients, message \in DedupMessages :
           LogCall(t, INFO, message)
    \/ \E t \in Clients : Probe(t)
    \/ \E t \in Clients : AppendEntry(t)
    \/ \E t \in Clients : Signal(t)
    \/ \E t \in Threads : FlushSwap(t)
    \/ \E t \in Threads : Dispatch(t)
    \/ \E t \in Threads : FlushFinish(t)
    \/ WorkerLoop
    \/ WorkerWake
    \/ WorkerCheck

SpecDedup == InitDedup /\ [][NextDedup]_vars

\* callback results the main thread registers
InCallbacks == {"ok", "throws"}

\* Producers that use both overloads of log().
NextSubmit ==
    \/ NextProducers
    \/ \E t \in Clients, level \in InLevels, rendered \in InMessages,
          ok \in BOOLEAN :
           LogFormatCall(t, level, rendered, ok)

SpecSubmit == InitSubmit /\ [][NextSubmit]_vars

\* Producers, and a main thread that registers a callback and calls
\* forceFlush().
NextCallback ==
    \/ NextProducers
    \/ \E callback \in InCallbacks : SetFlushCallback(Main, callback)
    \/ \E t \in Threads : InvokeCallback(t)
    \/ ForceFlushCall(Main)

SpecCallback == InitCallback /\ [][NextCallback]_vars

\* Producers, the flush thread and a main thread that calls shutdown().
NextDrainer ==
    \/ NextProducers
    \/ ShutdownCall(Main)
    \/ ShutdownNotify(Main)
    \/ ShutdownJoin(Main)
    \/ ShutdownClose(Main)

\* Every thread that can take a step of the call it is in eventually takes
\* it: the scheduler runs every runnable thread, a mutex that is free is
\* acquired, the writes to the sink return and wait_for returns at the
\* latest when flushInterval has elapsed.  No client has to start a call.
FairThreads ==
    /\ \A t \in Clients :
          WF_vars(Probe(t)) /\ WF_vars(AppendEntry(t)) /\ WF_vars(Signal(t))
    /\ \A t \in Threads :
          WF_vars(FlushSwap(t)) /\ WF_vars(Dispatch(t)) /\ WF_vars(FlushFinish(t))
    /\ WF_vars(ShutdownNotify(Main))
    /\ WF_vars(ShutdownJoin(Main))
    /\ WF_vars(ShutdownClose(Main))
    /\ WF_vars(WorkerLoop) /\ WF_vars(WorkerWake) /\ WF_vars(WorkerCheck)

\* the steps of an async engine on which either client may call shutdown(),
\* also while a call of the other is in progress
NextShutdown ==
    \/ NextProducers
    \/ \E t \in Clients : ShutdownCall(t)
    \/ \E t \in Clients : ShutdownNotify(t)
    \/ \E t \in Clients : ShutdownJoin(t)
    \/ \E t \in Clients : ShutdownClose(t)

SpecShutdown == InitDrainer /\ [][NextShutdown]_vars

SpecDrainer == InitDrainer /\ [][NextDrainer]_vars /\ FairThreads

(***************************************************************************)
(* Properties.                                                             *)
(***************************************************************************)
Lines == m_fileStream.lines

\* a log() call is in progress
SubmitInProgress == \E c \in Clients : InLogCall(c)

\* shutdown() has returned, and every log() call that was accepted had
\* returned before shutdown() was called
CleanShutdown ==
    /\ hist.sdReturned
    /\ ~hist.lateSubmit

\* the thread t takes a step
Moved(t) == pc'[t] # pc[t] \/ loc'[t] # loc[t]

Emitted(s) ==
    /\ s \in hist.counted
    /\ \E k \in 1..Len(Lines) : Lines[k].entry.seq = s /\ Lines[k].intact

\* C2: when shutdown() returns, every record appended by a log() call that
\* returned before shutdown() was called has been written to the sink and
\* counted in totalFlushed.
C2_ShutdownDrainsInFlight ==
    hist.sdReturned => \A s \in hist.returnedBefore : Emitted(s)

\* C3: no step of a log() call that started after shutdown() returned
\* changes the buffers, the dedup cache, the flush request, the stats or
\* the sink.
C3_PostShutdownSubmitNoOp ==
    [][\A c \in Clients :
          (Moved(c) /\ (loc[c].late \/ loc'[c].late)) =>
              UNCHANGED <<buffers, dedup, m_forceFlushRequested, m_stats,
                          m_fileStream>>]_vars

\* every record in the engine or in the sink had a level at or above the
\* minimum level its log() call read
AcceptedOnly(entries) ==
    \A k \in 1..Len(entries) : entries[k].level >= entries[k].minSeen

NoFilteredRecord ==
    /\ AcceptedOnly(m_primaryBuffer)
    /\ AcceptedOnly(m_secondaryBuffer)
    /\ \A t \in Threads : AcceptedOnly(loc[t].bufferToFlush)
    /\ \A k \in 1..Len(Lines) : Lines[k].entry.level >= Lines[k].entry.minSeen

\* C4: a log() call whose level is below the minimum level in force changes
\* no variable of the engine (no append, no probe, no counter; only the
\* number of calls left and the history record it), and no record below
\* the minimum level its call read is ever in a buffer, a batch or the sink.
C4_LevelFilter ==
    [][/\ \A c \in Clients, level \in InLevels, message \in InMessages :
              (level < minimumLevel /\ LogCall(c, level, message)) =>
                  UNCHANGED <<config, buffers, dedup, m_shutdown,
                              m_forceFlushRequested, m_fileStream, m_stats,
                              clock, pc, loc, crashed, ctlCalls>>
       /\ NoFilteredRecord']_vars

\* an INFO record accepted under the default minimum level is in the sink,
\* and an INFO call made after the level was raised to WARNING was filtered
C4_Witness ==
    /\ <<INFO, WARNING>> \in hist.filtered
    /\ \A c \in Clients : pc[c] = "idle"
    /\ m_stats.totalLogged = 1
    /\ Len(Lines) = 1
    /\ Lines[1].entry.level = INFO

\* the records that passed the probe and were appended, wherever they are
AppendedEntries ==
    {m_primaryBuffer[k] : k \in 1..Len(m_primaryBuffer)}
    \cup {m_secondaryBuffer[k] : k \in 1..Len(m_secondaryBuffer)}
    \cup UNION {{loc[t].bufferToFlush[k] : k \in 1..Len(loc[t].bufferToFlush)} :
                   t \in Threads}
    \cup {Lines[k].entry : k \in 1..Len(Lines)}

Abs(d) == IF d >= 0 THEN d ELSE 0 - d

\* C5: two appended records with the same fingerprint, both probed with
\* dedup enabled, have probe times at least the dedup time window apart.
C5_DedupWindowBound ==
    \A a, b \in AppendedEntries :
        (a.seq # b.seq /\ a.hash = b.hash /\ a.hash # ZeroHash) =>
            DurationCastMs(Abs(a.probed - b.probed)) >= deduplicationTimeWindow

\* C6: the lines of one drain are in the sink in the order in which their
\* records were appended.
C6_OrderWithinDrain ==
    \A i, j \in 1..Len(Lines) :
        (i < j /\ Lines[i].drain = Lines[j].drain) =>
            Lines[i].entry.seq < Lines[j].entry.seq

\* one drain wrote two records of the same producer
C6_Witness ==
    \E i, j \in 1..Len(Lines) :
        /\ i < j
        /\ Lines[i].drain = Lines[j].drain
        /\ Lines[i].entry.threadId = Lines[j].entry.threadId

\* C7: the lines are in the sink in the order in which their records were
\* appended, whichever drains wrote them.
C7_OrderAcrossDrains ==
    \A i, j \in 1..Len(Lines) :
        i < j => Lines[i].entry.seq < Lines[j].entry.seq

\* records in the active buffer and in the batches swapped out and not yet
\* counted
RECURSIVE SumLen(_)
SumLen(S) ==
    IF S = {} THEN 0
    ELSE LET t == CHOOSE u \in S : TRUE
         IN  Len(loc[t].bufferToFlush) + SumLen(S \ {t})

InFlight ==
    Len(m_primaryBuffer) + Len(m_secondaryBuffer) + SumLen(Threads)

\* C8: at most 2 * bufferSize records are in flight.
C8_BoundedInFlight == InFlight <= 2 * bufferSize

\* C9: when forceFlush() returns and no log() call was in progress during
\* the call, every appended record has been counted: totalFlushed equals
\* totalLogged.
C9_ForceFlushDrainsAll ==
    [][(/\ loc[Main].call = "forceFlush"
        /\ pc'[Main] = "idle"
        /\ hist.ffQuiet) =>
           m_stats'.totalFlushed = m_stats'.totalLogged]_vars

\* the threads inside the part of performFlush that uses the sinks
Dispatching == {t \in Threads : pc[t] = "dispatch"}

\* C10: at most one thread at a time is writing to the sinks.
C10_OneDispatcher == Cardinality(Dispatching) <= 1

\* the thread t takes a step of the part of performFlush that follows the
\* swap: a line written to the sink, the call of the callback, the stats
AfterSwapStep(t) == pc[t] = "dispatch" /\ (pc'[t] # pc[t] \/ loc'[t] # loc[t])

\* C11: a thread that writes to the sinks or calls the callback holds
\* neither mutex: its step is no part of a critical section of
\* m_bufferMutex (it leaves the buffers, the selector and the dedup cache
\* alone) and it does not hold m_flushMutex, so that a producer waiting to
\* signal the flush thread never waits for a thread that is doing sink I/O.
C11_NoLockDuringIO ==
    [][\A t \in Threads :
          /\ AfterSwapStep(t) =>
                 /\ ~HoldsFlushMutex(t)
                 /\ UNCHANGED <<buffers, dedup, enableDedup>>
          /\ (HoldsFlushMutex(t) /\ \E c \in Clients : pc[c] = "signal") =>
                 pc[t] # "dispatch"]_vars

\* the flush thread has written the line of its batch and called the
\* callback while a producer, past its append of the next record, is about
\* to signal
C11_Witness ==
    /\ asyncFlush
    /\ pc[Worker] = "dispatch"
    /\ loc[Worker].i > 1
    /\ loc[Worker].cbDone
    /\ Len(Lines) = 1
    /\ \E c \in Clients :
          /\ pc[c] = "signal"
          /\ loc[c].call = "log"
          /\ loc[c].entry.seq = 2
    /\ Len(currentBuffer) = 1

\* C12: a shutdown() call made after an earlier shutdown() call has
\* returned changes nothing: no drain, no step of the flush thread, no
\* change of the file sink or of a counter (only the number of calls left
\* and the history record it).
C12_IdempotentShutdown ==
    [][(hist.sdReturned /\ ShutdownCall(Main)) =>
          UNCHANGED <<config, buffers, dedup, m_shutdown,
                      m_forceFlushRequested, m_fileStream, m_stats, clock,
                      pc, loc, crashed, logCalls>>]_vars

\* shutdown() was called again after a shutdown that drained a record and
\* closed the file
C12_Witness ==
    /\ hist.sdReturned
    /\ hist.sdRepeats > 0
    /\ m_stats.totalFlushed > 0
    /\ ~m_fileStream.open

\* C13: the step of a log() call that appends its record goes on to request
\* a flush exactly when the active buffer, with that record in it, holds at
\* least bufferSize records or at least maxMemoryBytes estimated bytes;
\* the request is, in async mode, one step that sets m_forceFlushRequested
\* and notifies, and in sync mode performFlush run by the same call, after
\* the critical section of the append.  Nothing else sets the flag here.
C13_BackPressureTrigger ==
    [][/\ \A c \in Clients :
             /\ (pc[c] = "append" /\ pc'[c] # "append") =>
                   /\ pc'[c] =
                         IF \/ Len(currentBuffer') >= bufferSize
                            \/ SumUsage(currentBuffer') >= maxMemoryBytes
                         THEN (IF asyncFlush THEN "signal" ELSE "flush_swap")
                         ELSE "idle"
                   /\ pc'[c] # "idle" => loc'[c].call = "log"
                   /\ UNCHANGED m_forceFlushRequested
             /\ (pc[c] = "signal" /\ pc'[c] # "signal") =>
                   /\ m_forceFlushRequested'
                   /\ pc'[c] = "idle"
       /\ (m_forceFlushRequested' /\ ~m_forceFlushRequested) =>
             \E c \in Clients : pc[c] = "signal" /\ pc'[c] = "idle"]_vars

\* in async mode with the wide buffer, the second append reached the byte
\* budget and its call is about to signal, after a first append that
\* requested nothing
C13_Witness ==
    /\ asyncFlush
    /\ bufferSize = WideBufferSize
    /\ Len(currentBuffer) = 2
    /\ SumUsage(currentBuffer) >= maxMemoryBytes
    /\ ~m_forceFlushRequested
    /\ m_stats.totalFlushes = 0
    /\ \E c \in Clients :
          /\ pc[c] = "signal"
          /\ \A d \in Clients \ {c} : pc[d] = "idle"

\* C14: while dedup is disabled the dedup cache is empty: the map has no
\* entry, every slot of the ring is zero and the cursor is 0, whatever
\* log() calls run concurrently with enableDeduplication(false).
C14_DisableClearsCache ==
    ~enableDedup =>
        /\ DOMAIN m_dedupeMap = {}
        /\ \A k \in DOMAIN m_dedupeWindow : m_dedupeWindow[k] = ZeroHash
        /\ m_dedupeWindowIndex = 0

\* C15: whenever a log() call is about to probe the dedup cache, the ring
\* has deduplicationWindowSize >= 1 slots and the cursor is the index of
\* one of them.
C15_RingSizedAtProbe ==
    \A c \in Clients :
        pc[c] = "probe" =>
            /\ Len(m_dedupeWindow) = deduplicationWindowSize
            /\ Len(m_dedupeWindow) >= 1
            /\ m_dedupeWindowIndex \in 0..(Len(m_dedupeWindow) - 1)

\* the calls of the callback made since it was registered
CallbackCalls == hist.cb

RECURSIVE EntriesPassed(_)
EntriesPassed(calls) ==
    IF calls = <<>> THEN 0
    ELSE Len(Head(calls).arg) + EntriesPassed(Tail(calls))

\* no drain is between its call of the callback and its update of the stats
NoDrainAfterCallback == \A t \in Threads : ~loc[t].cbDone

\* C16: with a callback registered that returns normally, every call of the
\* callback passes a non-empty batch in append order after the lines of the
\* batch were written; no drain calls it twice; every completed drain that
\* swapped out its batch while the callback was registered has called it;
\* and the number of records passed equals the number of records counted
\* in totalFlushed since the registration.
C16_CallbackReceivesEmitted ==
    /\ \A k \in 1..Len(CallbackCalls) :
          /\ CallbackCalls[k].arg # <<>>
          /\ CallbackCalls[k].written = Len(CallbackCalls[k].arg)
          /\ \A i, j \in 1..Len(CallbackCalls[k].arg) :
                i < j => CallbackCalls[k].arg[i].seq < CallbackCalls[k].arg[j].seq
    /\ \A k, l \in 1..Len(CallbackCalls) :
          k # l => CallbackCalls[k].drain # CallbackCalls[l].drain
    /\ \A d \in hist.cbFinished :
          \E k \in 1..Len(CallbackCalls) : CallbackCalls[k].drain = d
    /\ (/\ m_flushCallback = "ok"
        /\ \A k \in 1..Len(CallbackCalls) : CallbackCalls[k].ended = "ok"
        /\ NoDrainAfterCallback) =>
           EntriesPassed(CallbackCalls)
               = m_stats.totalFlushed - hist.flushedAtReg

\* the thread t calls the callback in this step and the callback throws
CallbackFailedStep(t) ==
    /\ pc[t] = "dispatch"
    /\ Len(hist'.cb) = Len(hist.cb) + 1
    /\ hist'.cb[Len(hist'.cb)].drain = loc[t].drain
    /\ hist'.cb[Len(hist'.cb)].ended = "throws"

\* C17: when the callback throws during a drain, the process goes on, the
\* drain stays in performFlush and goes on to the update of the stats and
\* the reset of the request flag, and the exception reaches no caller.
C17_CallbackFailureContained ==
    [][\A t \in Threads :
          CallbackFailedStep(t) =>
              /\ ~crashed'
              /\ pc'[t] = "dispatch"
              /\ loc'[t].cbDone
              /\ t \notin hist'.cbEscaped]_vars

\* C18: no step of a log(level, format, ...) call whose vsnprintf failed
\* appends a record, changes the dedup cache or changes a counter.
C18_FormatErrorDrops ==
    [][\A c \in Clients :
          (Moved(c) /\ (loc[c].fmtFailed \/ loc'[c].fmtFailed)) =>
              UNCHANGED <<buffers, dedup, m_stats>>]_vars

\* the buffer the selector does not name
inactiveBuffer ==
    IF m_useSecondaryBuffer THEN m_primaryBuffer ELSE m_secondaryBuffer

\* the thread t swaps out a non-empty batch in this step
SwapStep(t) ==
    /\ pc[t] = "flush_swap"
    /\ pc'[t] = "dispatch"
    /\ loc'[t].bufferToFlush # <<>>

\* C19: the inactive buffer is empty in every state; the selector changes
\* exactly in the steps of performFlush that swap out a non-empty batch,
\* and after such a step the active buffer is empty and currentBufferSize
\* is 0.
C19_DoubleBuffer ==
    [][/\ inactiveBuffer' = <<>>
       /\ (m_useSecondaryBuffer' # m_useSecondaryBuffer)
              <=> \E t \in Threads : SwapStep(t)
       /\ (\E t \in Threads : SwapStep(t)) =>
              /\ currentBuffer' = <<>>
              /\ m_stats'.currentBufferSize = 0]_vars

\* the secondary buffer is the active one and holds a record appended after
\* the swap of a batch that is still being written
C19_Witness ==
    /\ m_useSecondaryBuffer
    /\ Len(m_secondaryBuffer) = 1
    /\ m_primaryBuffer = <<>>
    /\ \E t \in Threads :
          /\ pc[t] = "dispatch"
          /\ loc[t].bufferToFlush # <<>>
          /\ loc[t].i > 1

\* the number of places of the record with commit number s in a vector
Occurrences(entries, s) ==
    Cardinality({k \in 1..Len(entries) : entries[k].seq = s})

RECURSIVE BatchOccurrences(_, _)
BatchOccurrences(S, s) ==
    IF S = {} THEN 0
    ELSE LET t == CHOOSE u \in S : TRUE
         IN  Occurrences(loc[t].bufferToFlush, s) + BatchOccurrences(S \ {t}, s)

\* C20: every appended record is in exactly one place: a buffer, one
\* swapped-out batch of a drain in progress, or the records counted as
\* flushed; no record has two lines in the sink; and totalLogged equals
\* totalFlushed plus the length of the active buffer plus the sizes of the
\* batches swapped out and not yet counted.
C20_RecordConservation ==
    /\ \A s \in 1..m_stats.totalLogged :
          Occurrences(m_primaryBuffer, s) + Occurrences(m_secondaryBuffer, s)
              + BatchOccurrences(Threads, s)
              + (IF s \in hist.counted THEN 1 ELSE 0) = 1
    /\ \A i, j \in 1..Len(Lines) :
          i # j => Lines[i].entry.seq # Lines[j].entry.seq
    /\ m_stats.totalFlushed <= m_stats.totalLogged
    /\ m_stats.totalLogged =
          m_stats.totalFlushed + Len(currentBuffer) + SumLen(Threads)

\* C29: in async mode a shutdown() call that has set the flag eventually
\* returns: the flush thread leaves its loop and the join completes.
C29_ShutdownTerminates == hist.sdCalled ~> hist.sdReturned

\* shutdown() has returned on an async engine whose flush thread has ended
\* after at least one drain
C29_Witness ==
    /\ asyncFlush
    /\ hist.sdReturned
    /\ pc[Worker] = "done"
    /\ m_stats.totalFlushes > 0

\* C30: in async mode every record appended before shutdown() is called is
\* eventually written to the sink and counted, whether or not its append
\* reached a threshold.
C30_PeriodicFlush ==
    \A s \in 1..MaxLogCalls :
        (m_stats.totalLogged >= s /\ ~hist.sdCalled) ~> Emitted(s)

\* with the wide buffer, one record, which reached no threshold, has been
\* written and counted by the flush thread before any shutdown
C30_Witness ==
    /\ asyncFlush
    /\ bufferSize = WideBufferSize
    /\ ~hist.sdCalled
    /\ m_stats.totalLogged = 1
    /\ Emitted(1)

\* the call of the client c probes the dedup cache in this step and
\* shouldDeduplicate returns
ProbeStep(c) == pc[c] = "probe" /\ pc'[c] # "probe"

\* an entry for the fingerprint f exists and `now` is less than the time
\* window after its lastSeen, in clock ticks
SeenWithinWindow(f, now) ==
    /\ f \in DOMAIN m_dedupeMap
    /\ now - m_dedupeMap[f].lastSeen < deduplicationTimeWindow * TicksPerMs

\* C21: a probe suppresses exactly when an entry for the fingerprint exists
\* and now - lastSeen is less than the time window (a difference of exactly
\* the window passes); a suppressing probe adds one to the count of the
\* entry, sets its lastSeen to now and leaves the other entries, the ring
\* and the cursor as they are.
C21_SuppressionRule ==
    [][\A c \in Clients :
          ProbeStep(c) =>
              /\ (pc'[c] = "idle") <=> SeenWithinWindow(loc[c].hash, loc[c].now)
              /\ SeenWithinWindow(loc[c].hash, loc[c].now) =>
                    /\ m_dedupeMap' =
                          [m_dedupeMap EXCEPT ![loc[c].hash] =
                              [lastSeen |-> loc[c].now,
                               count |-> m_dedupeMap[loc[c].hash].count + 1]]
                    /\ UNCHANGED <<m_dedupeWindow, m_dedupeWindowIndex>>]_vars

\* three submissions of one message half a millisecond apart: the second
\* and the third were suppressed, the third a full window after the first
C21_Witness ==
    /\ m_stats.totalLogged = 1
    /\ m_stats.totalDeduplicated = 2
    /\ \E f \in DOMAIN m_dedupeMap :
          /\ m_dedupeMap[f].count = 3
          /\ m_dedupeMap[f].lastSeen = MaxTime
    /\ \A c \in Clients : pc[c] = "idle"

\* the map after m_dedupeMap[f] = {now, 1}
Inserted(f, now) ==
    [k \in DOMAIN m_dedupeMap \cup {f} |->
        IF k = f THEN [lastSeen |-> now, count |-> 1] ELSE m_dedupeMap[k]]

\* the fingerprint in the ring slot at the cursor
SlotAtCursor == m_dedupeWindow[m_dedupeWindowIndex + 1]

\* the slot at the cursor holds a non-zero fingerprint that is in the map
\* after the insertion of f, and its entry is a time window old or older
Expired(f, now) ==
    /\ SlotAtCursor # ZeroHash
    /\ SlotAtCursor \in DOMAIN Inserted(f, now)
    /\ now - Inserted(f, now)[SlotAtCursor].lastSeen
          >= deduplicationTimeWindow * TicksPerMs

\* C22: a probe that passes sets map[f] to (now, 1); it removes the
\* fingerprint of the slot at the cursor from the map exactly when that
\* fingerprint is non-zero, is in the map and its entry is at least a time
\* window old; it writes f into the slot and advances the cursor modulo the
\* ring size; no other entry and no other slot changes.
C22_InsertAndEvict ==
    [][\A c \in Clients :
          (ProbeStep(c) /\ pc'[c] = "append") =>
              /\ m_dedupeMap' =
                    [k \in DOMAIN Inserted(loc[c].hash, loc[c].now)
                           \ (IF Expired(loc[c].hash, loc[c].now)
                              THEN {SlotAtCursor} ELSE {}) |->
                        Inserted(loc[c].hash, loc[c].now)[k]]
              /\ m_dedupeWindow' =
                    [m_dedupeWindow EXCEPT
                        ![m_dedupeWindowIndex + 1] = loc[c].hash]
              /\ m_dedupeWindowIndex' =
                    (m_dedupeWindowIndex + 1) % Len(m_dedupeWindow)]_vars

\* the third probe has passed on a ring of two slots: the cursor wrapped to
\* the first slot, whose fingerprint was a window old and left the map; the
\* map holds the fingerprints of the two slots
C22_Witness ==
    \E c \in Clients :
        /\ pc[c] = "append"
        /\ Len(m_dedupeWindow) = WideWindowSize
        /\ m_dedupeWindowIndex = 1
        /\ m_dedupeWindow[1] = loc[c].hash
        /\ m_dedupeWindow[2] # m_dedupeWindow[1]
        /\ DOMAIN m_dedupeMap = {m_dedupeWindow[1], m_dedupeWindow[2]}
        /\ \E e \in AppendedEntries :
              e.hash \notin {ZeroHash, m_dedupeWindow[1], m_dedupeWindow[2]}

\* C23: every fingerprint that is a key of the dedup map occupies a slot of
\* the ring, and the map holds no more entries than the ring has slots.
C23_RingBoundsMap ==
    /\ \A f \in DOMAIN m_dedupeMap :
          \E k \in 1..Len(m_dedupeWindow) : m_dedupeWindow[k] = f
    /\ Cardinality(DOMAIN m_dedupeMap) <= Len(m_dedupeWindow)

\* the accepted log() calls that have neither been suppressed nor appended
Undecided == {c \in Clients : pc[c] \in {"probe", "append"}}

\* the call of the client c appends its record in this step
AppendStep(c) == pc[c] = "append" /\ pc'[c] # "append"

\* C24: every accepted log() call adds one to exactly one of
\* totalDeduplicated and totalLogged: a suppressing probe adds one to
\* totalDeduplicated and appends nothing, a passing probe changes neither
\* counter, the append adds one to totalLogged and one record to the active
\* buffer, and no other step changes either counter; so the accepted calls
\* that are decided number totalLogged + totalDeduplicated.
C24_OneCounterPerSubmit ==
    /\ [](hist.accepted = m_stats.totalLogged + m_stats.totalDeduplicated
                            + Cardinality(Undecided))
    /\ [][/\ \A c \in Clients :
                ProbeStep(c) =>
                    /\ m_stats'.totalLogged = m_stats.totalLogged
                    /\ m_stats'.totalDeduplicated =
                          m_stats.totalDeduplicated
                             + (IF pc'[c] = "idle" THEN 1 ELSE 0)
                    /\ UNCHANGED buffers
          /\ \A c \in Clients :
                AppendStep(c) =>
                    /\ m_stats'.totalLogged = m_stats.totalLogged + 1
                    /\ m_stats'.totalDeduplicated = m_stats.totalDeduplicated
                    /\ Len(currentBuffer') = Len(currentBuffer) + 1
                    /\ UNCHANGED m_useSecondaryBuffer
                    /\ Len(m_primaryBuffer') + Len(m_secondaryBuffer')
                          = Len(m_primaryBuffer) + Len(m_secondaryBuffer) + 1
          /\ (\/ m_stats'.totalLogged # m_stats.totalLogged
              \/ m_stats'.totalDeduplicated # m_stats.totalDeduplicated)
                => \E c \in Clients : ProbeStep(c) \/ AppendStep(c)]_vars

\* three submissions of one message, each within the window of the one
\* before, have all returned: one record was appended and two were counted
\* as deduplicated
C24_Witness ==
    /\ hist.accepted = 3
    /\ Undecided = {}
    /\ m_stats.totalLogged = 1
    /\ m_stats.totalDeduplicated = 2
    /\ Cardinality({e.seq : e \in AppendedEntries}) = 1
    /\ \E f \in DOMAIN m_dedupeMap : m_dedupeMap[f].count = 3

\* the thread t is at the start of performFlush, finds the active buffer
\* empty and takes its step
EmptyDrainStep(t) ==
    /\ pc[t] = "flush_swap"
    /\ currentBuffer = <<>>
    /\ pc'[t] # "flush_swap"

\* C25: a drain that finds the active buffer empty returns without flipping
\* the selector, without touching a buffer, without writing to the file
\* sink, without calling the callback, and without changing totalFlushed,
\* totalFlushes or lastFlushTime.
C25_EmptyDrainNoOp ==
    [][\A t \in Threads :
          EmptyDrainStep(t) =>
              /\ pc'[t] = AfterFlush(t)
              /\ UNCHANGED <<buffers, m_fileStream, m_stats>>
              /\ hist'.cb = hist.cb
              /\ hist'.drains = hist.drains]_vars

\* forceFlush() has found the active buffer empty on an engine with a
\* callback registered: nothing was written, counted or passed on
C25_Witness ==
    /\ hist.ffEmpty
    /\ m_flushCallback = "ok"
    /\ pc[Main] = "idle"
    /\ ctlCalls = 0
    /\ hist.cb = <<>>
    /\ Lines = <<>>
    /\ m_stats.totalFlushes = 0

\* C26: the drains that swapped out a batch and have left performFlush have
\* each added one to totalFlushes and the size of their batch to
\* totalFlushed: totalFlushes is the number of drains started less those
\* still between the swap and the stats, and totalFlushed is the number of
\* records swapped out less those in the batches of the drains in progress.
C26_DrainAccounting ==
    ~crashed =>
        /\ m_stats.totalFlushes = hist.drains - Cardinality(Dispatching)
        /\ m_stats.totalFlushed =
              m_stats.totalLogged
                 - (Len(m_primaryBuffer) + Len(m_secondaryBuffer))
                 - SumLen(Dispatching)

\* the state of the flush thread: Idle from the loop condition to the test
\* after the wait, Draining inside performFlush, Stopping once it has left
\* the loop
DrainerState(p) ==
    IF p \in {"loop", "waiting", "check"} THEN "Idle"
    ELSE IF p \in {"flush_swap", "dispatch"} THEN "Draining"
    ELSE "Stopping"

\* C27: the flush thread only goes from Idle to Draining, from Draining to
\* Idle and into Stopping; it enters Stopping only with the shutdown flag
\* set and never leaves it; the flag, once set, stays set, and the flush
\* thread starts a drain only in a step in which it reads the flag as
\* false, so never after it has seen it set.
C27_DrainerStateMachine ==
    [][asyncFlush =>
          /\ DrainerState(pc'[Worker]) # DrainerState(pc[Worker]) =>
                \/ DrainerState(pc'[Worker]) = "Stopping"
                \/ <<DrainerState(pc[Worker]), DrainerState(pc'[Worker])>>
                      \in {<<"Idle", "Draining">>, <<"Draining", "Idle">>}
          /\ DrainerState(pc[Worker]) = "Stopping" =>
                DrainerState(pc'[Worker]) = "Stopping"
          /\ DrainerState(pc'[Worker]) = "Stopping" => m_shutdown'
          /\ m_shutdown => m_shutdown'
          /\ (/\ DrainerState(pc[Worker]) = "Idle"
              /\ DrainerState(pc'[Worker]) = "Draining") => ~m_shutdown]_vars

\* the flush thread has drained at least once, has seen the flag and has
\* left its loop, and shutdown() has returned
C27_Witness ==
    /\ asyncFlush
    /\ pc[Worker] = "done"
    /\ hist.sdReturned
    /\ ctlCalls = MaxCtlCalls - 1
    /\ m_stats.totalFlushes = 2

\* where a shutdown() call stands: 0 not in the call, 1 flag set and about
\* to notify, 2 notified and about to join, 3 in the final drain, 4 final
\* drain done and about to close the file
ShutdownStage(p, ret) ==
    IF p = "sd_notify" THEN 1
    ELSE IF p = "sd_join" THEN 2
    ELSE IF p = "sd_close" THEN 4
    ELSE IF p \in {"flush_swap", "dispatch"} /\ ret = "sd_close" THEN 3
    ELSE 0

\* C28: a shutdown() call goes through its stages in order: it sets the
\* flag (which was clear), notifies, joins, runs the final drain, closes the
\* file and returns; it leaves the join only when the flush thread has
\* ended, so no drain of the flush thread overlaps the final drain; and the
\* file is closed only by the step that follows the final drain.
C28_ShutdownOrder ==
    [][/\ \A t \in Clients :
            LET stage == ShutdownStage(pc[t], loc[t].ret)
                stage2 == ShutdownStage(pc'[t], loc'[t].ret)
            IN  /\ stage2 # stage => stage2 = (stage + 1) % 5
                /\ (stage = 0 /\ stage2 = 1) => ~m_shutdown /\ m_shutdown'
                /\ stage2 > 0 => m_shutdown'
                /\ stage2 = 3 => DrainerState(pc'[Worker]) = "Stopping"
                /\ (stage = 4 /\ stage2 = 0) => ~m_fileStream'.open
       /\ (m_fileStream.open /\ ~m_fileStream'.open) =>
             \E t \in Clients :
                 /\ ShutdownStage(pc[t], loc[t].ret) = 4
                 /\ ShutdownStage(pc'[t], loc'[t].ret) = 0]_vars

\* shutdown() of an async engine has joined the flush thread and is in its
\* final drain, which has written its batch; the file is still open
C28_Witness ==
    /\ asyncFlush
    /\ pc[Main] = "dispatch"
    /\ loc[Main].ret = "sd_close"
    /\ loc[Main].i > Len(loc[Main].bufferToFlush)
    /\ pc[Worker] = "done"
    /\ m_fileStream.open
    /\ \E k \in 1..Len(Lines) : Lines[k].drain = loc[Main].drain

\* C31: in async mode the request flag, once set by a producer or by
\* flush(), is cleared only by a drain that swapped its batch after the
\* request was set: the number of the clearing drain is greater than the
\* number of drains that had swapped when the request was made.
C31_RequestNeverLost ==
    [][(asyncFlush /\ m_forceFlushRequested /\ ~m_forceFlushRequested') =>
          \E t \in Threads :
              /\ pc[t] = "dispatch"
              /\ pc'[t] # "dispatch"
              /\ loc[t].drain > hist.reqDrains]_vars

\* C32: whenever performFlush returns in the flush thread, also on the
\* early return on an empty active buffer, the request flag is false.
C32_NoSpin ==
    [][(/\ DrainerState(pc[Worker]) = "Draining"
        /\ DrainerState(pc'[Worker]) = "Idle") =>
           ~m_forceFlushRequested']_vars

(***************************************************************************)
(* The locking of the engine, by itself.  Each call is the sequence of its *)
(* lock, unlock, wait and join operations, in the order of the source; the *)
(* data that selects a path (level, dedup outcome, thresholds, an empty    *)
(* buffer) is left open.  loc[t].locks is what the thread has still to     *)
(* do, loc[t].held the mutexes it holds.                                   *)
(***************************************************************************)
BufferMutex == "m_bufferMutex"
FlushMutex == "m_flushMutex"

Lock(m) == [op |-> "lock", mutex |-> m]
Unlock(m) == [op |-> "unlock", mutex |-> m]
\* m_flushCv.wait_for: releases the mutex and blocks ...
CvWait == [op |-> "wait", mutex |-> FlushMutex]
\* ... and takes the mutex again before it returns
CvWake == [op |-> "wake", mutex |-> FlushMutex]
\* the test of m_shutdown after the wait
AfterWait == [op |-> "branch", mutex |-> FlushMutex]
\* m_flushThread->join()
Join == [op |-> "join", mutex |-> ""]

\* shouldDeduplicate: one scope of m_bufferMutex
shouldDeduplicatePath == <<Lock(BufferMutex), Unlock(BufferMutex)>>

\* performFlush: one scope of m_bufferMutex around the swap, none after it
performFlushPath == <<Lock(BufferMutex), Unlock(BufferMutex)>>

\* an internalLog that raises the request inside the scope of m_bufferMutex
internalLogNestedPath ==
    <<Lock(BufferMutex), Lock(FlushMutex), Unlock(FlushMutex),
      Unlock(BufferMutex)>>

\* internalLog in async mode with a threshold reached: the scope of
\* m_bufferMutex is closed before m_flushMutex is taken for the request
internalLogAsyncPath ==
    <<Lock(BufferMutex), Unlock(BufferMutex), Lock(FlushMutex),
      Unlock(FlushMutex)>>

\* internalLog with no threshold reached, and with one in sync mode
internalLogPaths(async) ==
    {<<Lock(BufferMutex), Unlock(BufferMutex)>>,
     IF async THEN internalLogAsyncPath
     ELSE <<Lock(BufferMutex), Unlock(BufferMutex)>> \o performFlushPath}

\* log(): filtered, suppressed, or appended, with dedup enabled or not
logPaths(async) ==
    {<<>>, shouldDeduplicatePath}
    \cup internalLogPaths(async)
    \cup {shouldDeduplicatePath \o path : path \in internalLogPaths(async)}

\* flush()
flushPath(async) ==
    IF async THEN <<Lock(FlushMutex), Unlock(FlushMutex)>>
    ELSE performFlushPath

\* enableDeduplication(): one scope of m_bufferMutex
enableDeduplicationPath == <<Lock(BufferMutex), Unlock(BufferMutex)>>

\* flush(), forceFlush() and enableDeduplication()
controlPaths(async) ==
    {flushPath(async), performFlushPath, enableDeduplicationPath}

\* shutdown() after the exchange: notify, join, forceFlush
shutdownPath ==
    <<Lock(FlushMutex), Unlock(FlushMutex), Join>> \o performFlushPath

\* one turn of the loop of flushWorker up to the test after the wait
flushWorkerPath == <<Lock(FlushMutex), CvWait, CvWake, AfterWait>>

\* the threads that hold the mutex m
Holders(m) == {t \in Threads : m \in loc[t].held}

\* the thread t has done the first of its operations; with none left it
\* returns (the flush thread: to its loop condition)
Advance(t, rest, held) ==
    IF rest = <<>>
    THEN /\ pc' = [pc EXCEPT ![t] = IF t = Worker THEN "loop" ELSE "idle"]
         /\ loc' = Return(t)
    ELSE /\ loc' = [loc EXCEPT ![t].locks = rest, ![t].held = held]
         /\ UNCHANGED pc

lockFrame == <<config, buffers, dedup, m_forceFlushRequested, m_fileStream,
               m_stats, clock, crashed, hist>>

EnterLog(t) ==
    /\ pc[t] = "idle"
    /\ logCalls > 0
    /\ logCalls' = logCalls - 1
    /\ \E path \in logPaths(asyncFlush) :
          IF path = <<>>
          THEN UNCHANGED <<pc, loc>>
          ELSE /\ pc' = [pc EXCEPT ![t] = "locks"]
               /\ loc' = [loc EXCEPT ![t] =
                             [NoLocals EXCEPT !.call = "log", !.locks = path]]
    /\ UNCHANGED <<lockFrame, m_shutdown, ctlCalls>>

EnterControl(t) ==
    /\ pc[t] = "idle"
    /\ ctlCalls > 0
    /\ ctlCalls' = ctlCalls - 1
    /\ \E path \in controlPaths(asyncFlush) :
          /\ pc' = [pc EXCEPT ![t] = "locks"]
          /\ loc' = [loc EXCEPT ![t] =
                        [NoLocals EXCEPT !.call = "control", !.locks = path]]
    /\ UNCHANGED <<lockFrame, m_shutdown, logCalls>>

\* shutdown(): the exchange, then the rest of the call
EnterShutdown(t) ==
    /\ pc[t] = "idle"
    /\ ctlCalls > 0
    /\ ctlCalls' = ctlCalls - 1
    /\ IF AlreadyShutDown(m_shutdown)
       THEN UNCHANGED <<m_shutdown, pc, loc>>
       ELSE /\ m_shutdown' = TRUE
            /\ pc' = [pc EXCEPT ![t] = "locks"]
            /\ loc' = [loc EXCEPT ![t] =
                          [NoLocals EXCEPT !.call = "shutdown",
                                           !.locks = shutdownPath]]
    /\ UNCHANGED <<lockFrame, logCalls>>

\* std::unique_lock<std::mutex> lock(m): blocks while another thread holds m;
\* a thread that locks a mutex it holds is stuck for good
AcquireMutex(t) ==
    /\ pc[t] = "locks"
    /\ Head(loc[t].locks).op = "lock"
    /\ Holders(Head(loc[t].locks).mutex) = {}
    /\ Advance(t, Tail(loc[t].locks),
               loc[t].held \cup {Head(loc[t].locks).mutex})
    /\ UNCHANGED <<lockFrame, m_shutdown, logCalls, ctlCalls>>

\* the end of the scope of a lock, or lock.unlock()
ReleaseMutex(t) ==
    /\ pc[t] = "locks"
    /\ Head(loc[t].locks).op = "unlock"
    /\ Advance(t, Tail(loc[t].locks),
               loc[t].held \ {Head(loc[t].locks).mutex})
    /\ UNCHANGED <<lockFrame, m_shutdown, logCalls, ctlCalls>>

\* while (!m_shutdown)
LoopCondition ==
    /\ pc[Worker] = "loop"
    /\ IF m_shutdown
       THEN /\ pc' = [pc EXCEPT ![Worker] = "done"]
            /\ UNCHANGED loc
       ELSE /\ pc' = [pc EXCEPT ![Worker] = "locks"]
            /\ loc' = [loc EXCEPT ![Worker].locks = flushWorkerPath]
    /\ UNCHANGED <<lockFrame, m_shutdown, logCalls, ctlCalls>>

\* wait_for gives up m_flushMutex and waits
WaitFor ==
    /\ pc[Worker] = "locks"
    /\ Head(loc[Worker].locks).op = "wait"
    /\ Advance(Worker, Tail(loc[Worker].locks),
               loc[Worker].held \ {FlushMutex})
    /\ UNCHANGED <<lockFrame, m_shutdown, logCalls, ctlCalls>>

\* wait_for returns (notify, timeout or predicate) once it has the mutex
WakeUp ==
    /\ pc[Worker] = "locks"
    /\ Head(loc[Worker].locks).op = "wake"
    /\ Holders(FlushMutex) = {}
    /\ Advance(Worker, Tail(loc[Worker].locks),
               loc[Worker].held \cup {FlushMutex})
    /\ UNCHANGED <<lockFrame, m_shutdown, logCalls, ctlCalls>>

\* if (m_shutdown) break; lock.unlock(); performFlush();
BreakOrFlush ==
    /\ pc[Worker] = "locks"
    /\ Head(loc[Worker].locks).op = "branch"
    /\ Advance(Worker,
               IF BreakOnShutdown(m_shutdown)
               THEN <<Unlock(FlushMutex)>>
               ELSE <<Unlock(FlushMutex)>> \o performFlushPath,
               loc[Worker].held)
    /\ UNCHANGED <<lockFrame, m_shutdown, logCalls, ctlCalls>>

\* m_flushThread->join(): returns when the flush thread has ended
JoinFlushThread(t) ==
    /\ pc[t] = "locks"
    /\ Head(loc[t].locks).op = "join"
    /\ Joined
    /\ Advance(t, Tail(loc[t].locks), loc[t].held)
    /\ UNCHANGED <<lockFrame, m_shutdown, logCalls, ctlCalls>>

NextLocks ==
    \/ \E t \in Clients : EnterLog(t)
    \/ \E t \in Clients : EnterControl(t)
    \/ EnterShutdown(Main)
    \/ \E t \in Threads : AcquireMutex(t)
    \/ \E t \in Threads : ReleaseMutex(t)
    \/ LoopCondition
    \/ WaitFor
    \/ WakeUp
    \/ BreakOrFlush
    \/ JoinFlushThread(Main)

SpecLocks == Init /\ [][NextLocks]_vars

\* the thread t cannot take its next step: it wants a mutex that a thread
\* holds, or it joins a flush thread that has not ended
Blocked(t) ==
    /\ pc[t] = "locks"
    /\ \/ /\ Head(loc[t].locks).op \in {"lock", "wake"}
          /\ Holders(Head(loc[t].locks).mutex) # {}
       \/ /\ Head(loc[t].locks).op = "join"
          /\ ~Joined

\* the thread t is inside a call, or it is the flush thread in its loop
Running(t) == pc[t] \in {"locks", "loop"}

\* C33: no thread holds m_bufferMutex and m_flushMutex at the same time, no
\* mutex has two holders, and in no state are all the threads that are
\* inside a call blocked.
C33_NoNestingNoDeadlock ==
    /\ \A t \in Threads : Cardinality(loc[t].held) <= 1
    /\ \A m \in {BufferMutex, FlushMutex} : Cardinality(Holders(m)) <= 1
    /\ (\E t \in Threads : pc[t] = "locks") =>
          \E t \in Threads : Running(t) /\ ~Blocked(t)

\* shutdown() waits for m_flushMutex, which the flush thread holds after
\* its wait, while a producer holds m_bufferMutex
C33_Witness ==
    /\ loc[Main].call = "shutdown"
    /\ Blocked(Main)
    /\ Head(loc[Main].locks) = Lock(FlushMutex)
    /\ loc[Worker].held = {FlushMutex}
    /\ loc[Producer].held = {BufferMutex}

\* C34: no step lowers the lastSeen of a fingerprint that stays in the
\* dedup map.
C34_LastSeenMonotonic ==
    [][\A f \in DOMAIN m_dedupeMap \cap DOMAIN m_dedupeMap' :
          m_dedupeMap'[f].lastSeen >= m_dedupeMap[f].lastSeen]_vars

\* a shutdown() call returns in this step: the first call after the close,
\* or a later call from its test of the flag
ShutdownReturns ==
    \/ hist'.sdReturned /\ ~hist.sdReturned
    \/ hist'.sdRepeats > hist.sdRepeats

\* C35: when a shutdown() call returns, the flush thread has ended and the
\* final drain of the first call has finished.
C35_ReturnMeansComplete ==
    [][ShutdownReturns =>
          /\ pc'[Worker] \in {"none", "done"}
          /\ \A t \in Clients :
                ShutdownStage(pc'[t], loc'[t].ret) \in {0, 4}]_vars

\* the records passed to the callback
CallbackEntries ==
    UNION {{hist.cb[k].arg[j] : j \in 1..Len(hist.cb[k].arg)} :
              k \in 1..Len(hist.cb)}

\* C36: every record in a buffer, in a swapped-out batch, in a line of the
\* sink or passed to the callback has count 1, and no line carries the
\* repetition suffix.
C36_CountAlwaysOne ==
    /\ \A e \in AppendedEntries \cup CallbackEntries : e.count = 1
    /\ \A k \in 1..Len(Lines) : Lines[k].text.repeated = 0

\* a duplicate was suppressed, so the entry of the fingerprint has count 2,
\* and the record of that fingerprint was written to the sink and passed
\* to the callback
C36_Witness ==
    \E f \in DOMAIN m_dedupeMap :
        /\ m_dedupeMap[f].count = 2
        /\ m_stats.totalDeduplicated = 1
        /\ \E k \in 1..Len(Lines) : Lines[k].entry.hash = f
        /\ \E e \in CallbackEntries : e.hash = f

====
